---- MODULE Spec2Model ----
(***************************************************************************)
(* Template binary sensor (homeassistant/components/template/              *)
(* binary_sensor.py): dependency resolution in async_setup_platform, the   *)
(* startup handler, the render pass _async_render and the delay_on /       *)
(* delay_off commit protocol of async_check_state.                         *)
(*                                                                         *)
(* Python values: None, True and False are the strings "None", "True" and  *)
(* "False"; the MATCH_ALL sentinel "*" is the set {"*"}, so that it can be *)
(* compared with a set of entity ids; a missing manual entity list is the  *)
(* set {"None"}.  Template names are sequences of tokens, so that          *)
(* str.replace("_template", "") is computed and not assumed.               *)
(***************************************************************************)
EXTENDS Integers, Sequences, FiniteSets, TLC

\* ------------------------------------------------------------------ bounds
\* Longest delay_on / delay_off, in ticks of the clock.
MaxDelay == 2

\* ------------------------------------------------------- Python constants
None == "None"
True == "True"
False == "False"
Bool(b) == IF b THEN True ELSE False

MATCH_ALL == {"*"}
NoEntityIds == {"None"}
\* device_config.get(CONF_DELAY_ON) when the option is absent (None)
NoDelay == -1

\* The upstream entities of the state machine.
Keys == {"k1", "k2"}

\* TemplateError whose args[0] starts with "UndefinedError: 'None' has no attribute"
UNDEFINED == "UndefinedError: 'None' has no attribute"
\* any other TemplateError
TEMPLATE_ERROR == "TemplateError"
IsError(out) == out \in {UNDEFINED, TEMPLATE_ERROR}

\* What the value template can render to.
ValueOutcomes == {"True", "true", "off", UNDEFINED, TEMPLATE_ERROR}
IconOutcomes == {"mdi:a", "mdi:b", UNDEFINED, TEMPLATE_ERROR}
PictureOutcomes == {"/a.png", "/b.png", TEMPLATE_ERROR}
AvailabilityOutcomes == {"True", "off", TEMPLATE_ERROR}
AttributeOutcomes == {"x", "y", TEMPLATE_ERROR}

\* str.lower() on the strings that are rendered
lower(s) ==
    CASE s = "True" -> "true"
      [] s = "False" -> "false"
      [] OTHER -> s

\* ------------------------------------------------------------ templates
NoTemplate == [exists |-> FALSE, refs |-> {}]
Template(refs) == [exists |-> TRUE, refs |-> refs]

CONF_VALUE_TEMPLATE == <<"value", "_template">>
CONF_ICON_TEMPLATE == <<"icon", "_template">>
CONF_ENTITY_PICTURE_TEMPLATE == <<"entity_picture", "_template">>
CONF_AVAILABILITY_TEMPLATE == <<"availability", "_template">>

VARIABLES
    pc,                 \* lifecycle: "config", "constructed", "added", "started"
    cfg,                \* device_config
    _entities,          \* self._entities
    invalid_templates,  \* invalid_templates of async_setup_platform
    extracted,          \* the templates extract_entities was called on
    warnings,           \* the _LOGGER.warning calls of async_setup_platform
    subscriptions,      \* the async_track_state_change subscriptions installed
    _state,             \* self._state
    _attributes,        \* self._attributes
    _icon,              \* self._icon
    _entity_picture,    \* self._entity_picture
    _available,         \* self._available
    timers,             \* outstanding async_track_same_state trackers
    valueOut,           \* what the value template renders to right now
    publishes,          \* async_schedule_update_ha_state calls of the last step
    last_op,            \* the handler that ran in the last step
    last_state,         \* what _async_render returned in the last step
    outcomes            \* what the templates rendered to in the last step

vars == <<pc, cfg, _entities, invalid_templates, extracted, warnings,
          subscriptions, _state, _attributes, _icon, _entity_picture,
          _available, timers, valueOut, publishes, last_op, last_state,
          outcomes>>

NoRender == "-"
EmptyDict == [k \in {} |-> None]
\* No template was rendered in the step.
NoOutcomes ==
    [value |-> NoRender, attrs |-> EmptyDict, _icon |-> NoRender,
     _entity_picture |-> NoRender, _available |-> NoRender]

\* ------------------------------------------------- async_setup_platform
\* tpl_name.replace("_template", "")
strip_template(tpl_name) == SelectSeq(tpl_name, LAMBDA tok : tok # "_template")

\* chain(templates.items(), attribute_templates.items())
template_chain(c) ==
    << <<CONF_VALUE_TEMPLATE, c.value_template>>,
       <<CONF_ICON_TEMPLATE, c.icon_template>>,
       <<CONF_ENTITY_PICTURE_TEMPLATE, c.entity_picture_template>>,
       <<CONF_AVAILABILITY_TEMPLATE, c.availability_template>> >>
    \o c.attribute_templates

\* A wrong loop body: a later bounded template overwrites MATCH_ALL.
extract_step_overwrite(acc, tpl_name, template, manual_entity_ids) ==
    IF ~template.exists THEN acc
    ELSE IF manual_entity_ids # NoEntityIds THEN acc
    ELSE IF template.refs = MATCH_ALL
         THEN [entity_ids |-> MATCH_ALL,
               invalid |-> Append(acc.invalid, strip_template(tpl_name)),
               extracted |-> Append(acc.extracted, tpl_name)]
         ELSE [acc EXCEPT !.entity_ids = (@ \ MATCH_ALL) \cup template.refs,
                          !.extracted = Append(@, tpl_name)]

\* A wrong loop body: the manual entity ids are looked at after extraction.
extract_step_manual_late(acc, tpl_name, template, manual_entity_ids) ==
    IF ~template.exists THEN acc
    ELSE IF template.refs = MATCH_ALL
         THEN [entity_ids |-> MATCH_ALL,
               invalid |-> Append(acc.invalid, strip_template(tpl_name)),
               extracted |-> Append(acc.extracted, tpl_name)]
         ELSE IF manual_entity_ids # NoEntityIds THEN acc
         ELSE IF acc.entity_ids # MATCH_ALL
              THEN [acc EXCEPT !.entity_ids = @ \cup template.refs,
                               !.extracted = Append(@, tpl_name)]
              ELSE [acc EXCEPT !.extracted = Append(@, tpl_name)]

\* One iteration of the loop over the templates.
extract_step(acc, tpl_name, template, manual_entity_ids) ==
    IF ~template.exists THEN acc
    ELSE IF manual_entity_ids # NoEntityIds THEN acc
    ELSE IF template.refs = MATCH_ALL
         THEN [entity_ids |-> MATCH_ALL,
               invalid |-> Append(acc.invalid, strip_template(tpl_name)),
               extracted |-> Append(acc.extracted, tpl_name)]
         ELSE IF acc.entity_ids # MATCH_ALL
              THEN [acc EXCEPT !.entity_ids = @ \cup template.refs,
                               !.extracted = Append(@, tpl_name)]
              ELSE [acc EXCEPT !.extracted = Append(@, tpl_name)]

RECURSIVE extract_loop(_, _, _)
extract_loop(acc, chain, manual_entity_ids) ==
    IF chain = <<>> THEN acc
    ELSE extract_loop(extract_step(acc, Head(chain)[1], Head(chain)[2],
                                   manual_entity_ids),
                      Tail(chain), manual_entity_ids)

\* entity_ids after the loop and the manual override
\* entity_ids = set(), invalid_templates = [] before the loop
extract_start == [entity_ids |-> {}, invalid |-> <<>>, extracted |-> <<>>]

resolve_entity_ids(c) ==
    LET acc == extract_loop(extract_start, template_chain(c), c.entity_id)
    IN  IF c.entity_id # NoEntityIds THEN c.entity_id ELSE acc.entity_ids

resolve_invalid_templates(c) ==
    extract_loop(extract_start, template_chain(c), c.entity_id).invalid

\* the templates template.extract_entities() is called on
resolve_extracted(c) ==
    extract_loop(extract_start, template_chain(c), c.entity_id).extracted

AttributeNames(c) ==
    {c.attribute_templates[i][1] : i \in 1..Len(c.attribute_templates)}

\* async_setup_platform for one device, and BinarySensorTemplate.__init__
Setup ==
    /\ pc = "config"
    /\ pc' = "constructed"
    /\ _entities' = resolve_entity_ids(cfg)
    /\ invalid_templates' = resolve_invalid_templates(cfg)
    /\ extracted' = resolve_extracted(cfg)
    /\ warnings' = IF resolve_invalid_templates(cfg) # <<>>
                   THEN Append(warnings, resolve_invalid_templates(cfg))
                   ELSE warnings
    /\ _state' = None
    /\ _icon' = None
    /\ _entity_picture' = None
    /\ _available' = True
    /\ _attributes' = EmptyDict
    /\ publishes' = 0
    /\ last_op' = "setup"
    /\ last_state' = NoRender
    /\ outcomes' = NoOutcomes
    /\ UNCHANGED <<cfg, subscriptions, timers, valueOut>>

\* ------------------------------------------------------- _async_render
\* The outcomes the templates of the sensor can have in one pass, the value
\* template rendering to v.
Outcomes(v) ==
    [value : {v},
     attrs : [AttributeNames(cfg) -> AttributeOutcomes],
     _icon : IF cfg.icon_template.exists THEN IconOutcomes ELSE {NoRender},
     _entity_picture : IF cfg.entity_picture_template.exists
                       THEN PictureOutcomes ELSE {NoRender},
     _available : IF cfg.availability_template.exists
                  THEN AvailabilityOutcomes ELSE {NoRender}]

\* A wrong conversion: a template error counts as a rendered "false".
render_value_error_false(out) == Bool(lower(out) = "true")

\* self._template.async_render().lower() == "true", None on TemplateError
render_value(out) ==
    IF IsError(out) THEN None ELSE Bool(lower(out) = "true")

\* A wrong attribute loop: the attributes of earlier passes are kept.
render_attributes_keep_stale(o) ==
    LET ok == {k \in DOMAIN o.attrs : ~IsError(o.attrs[k])}
    IN  [k \in ok \cup DOMAIN _attributes |->
            IF k \in ok THEN o.attrs[k] ELSE _attributes[k]]

\* the attribute loop: the attributes that rendered
render_attributes(o) ==
    LET ok == {k \in DOMAIN o.attrs : ~IsError(o.attrs[k])}
    IN  [k \in ok |-> o.attrs[k]]

property_template(c, property_name) ==
    CASE property_name = "_icon" -> c.icon_template
      [] property_name = "_entity_picture" -> c.entity_picture_template
      [] property_name = "_available" -> c.availability_template

\* the loop over _icon, _entity_picture, _available: returns at the first error
RECURSIVE render_properties(_, _, _)
render_properties(names, fields, o) ==
    IF names = <<>> THEN fields
    ELSE LET property_name == Head(names)
         IN  IF ~property_template(cfg, property_name).exists
             THEN render_properties(Tail(names), fields, o)
             ELSE IF IsError(o[property_name]) THEN fields
             ELSE render_properties(
                     Tail(names),
                     [fields EXCEPT ![property_name] =
                         IF property_name = "_available"
                         THEN Bool(lower(o[property_name]) = "true")
                         ELSE o[property_name]],
                     o)

\* The fields of the sensor before a pass.
Fields ==
    [state |-> None, _attributes |-> _attributes, _icon |-> _icon,
     _entity_picture |-> _entity_picture, _available |-> _available]

\* A wrong pass: every error of the value template ends the pass.
_async_render_abort_on_error(o) ==
    IF IsError(o.value)
    THEN Fields
    ELSE render_properties(
            <<"_icon", "_entity_picture", "_available">>,
            [Fields EXCEPT !.state = render_value(o.value),
                           !._attributes = render_attributes(o)],
            o)

\* _async_render: the value it returns (state) and the fields it leaves
_async_render(o) ==
    IF o.value = UNDEFINED
    THEN Fields
    ELSE render_properties(
            <<"_icon", "_entity_picture", "_available">>,
            [Fields EXCEPT !.state = render_value(o.value),
                           !._attributes = render_attributes(o)],
            o)

\* the assignments of a pass whose result is r
Rendered(r) ==
    /\ _attributes' = r._attributes
    /\ _icon' = r._icon
    /\ _entity_picture' = r._entity_picture
    /\ _available' = r._available
    /\ last_state' = r.state

\* ---------------------------------------------------- async_check_state
\* not self._delay_on: None and a zero timedelta are both falsy
falsy(delay) == delay = NoDelay \/ delay = 0

\* BinarySensorDevice.state as the commit protocol reads it: the committed value
state == _state

\* A wrong test: a candidate that is already pending returns early too.
unchanged_or_invalid_pending(st, current) ==
    st = None \/ st = current \/ \E t \in timers : t.target = st

\* A wrong test: an invalid state does not return early.
unchanged_or_invalid_same_only(st, current) == st = current

\* A wrong test: only an invalid state returns early.
unchanged_or_invalid_none_only(st, current) == st = None

\* if state is None or state == self.state: return
unchanged_or_invalid(st, current) == st = None \/ st = current

\* (state and not self._delay_on) or (not state and not self._delay_off)
without_delay(st, delay_on, delay_off) ==
    \/ (st = True /\ falsy(delay_on))
    \/ (st # True /\ falsy(delay_off))

\* A wrong period: the delay of the other direction.
period_swapped(st, delay_on, delay_off) ==
    IF st = True THEN delay_off ELSE delay_on

\* period = self._delay_on if state else self._delay_off
period(st, delay_on, delay_off) ==
    IF st = True THEN delay_on ELSE delay_off

\* A wrong set_state: the state is assigned and never published.
set_state_silent(st) == [_state |-> st, publishes |-> 0]

\* set_state: self._state = state; self.async_schedule_update_ha_state()
set_state(st) == [_state |-> st, publishes |-> 1]

\* A wrong guard: the rendered state is not compared.
async_check_same_func_always(rendered, st) == TRUE

\* async_check_same_func = lambda *args: self._async_render() == state
async_check_same_func(rendered, st) == rendered = st

\* A tracker that leaves the earlier trackers running.
async_track_same_state_keep(ts, p, st) ==
    ts \cup {[target |-> st, period |-> p, elapsed |-> 0]}

\* async_track_same_state: one tracker per sensor, a new one replaces the old
async_track_same_state(ts, p, st) ==
    {[target |-> st, period |-> p, elapsed |-> 0]}

\* async_check_state with the templates rendering to o
async_check_state(o) ==
    LET r == _async_render(o)
    IN  /\ Rendered(r)
        /\ outcomes' = o
        /\ IF unchanged_or_invalid(r.state, state)
           THEN /\ publishes' = 0
                /\ UNCHANGED <<_state, timers>>
           ELSE IF without_delay(r.state, cfg.delay_on, cfg.delay_off)
           THEN /\ _state' = set_state(r.state)._state
                /\ publishes' = set_state(r.state).publishes
                /\ UNCHANGED timers
           ELSE /\ timers' = async_track_same_state(
                                timers,
                                period(r.state, cfg.delay_on, cfg.delay_off),
                                r.state)
                /\ publishes' = 0
                /\ UNCHANGED _state

\* ------------------------------------------------------------ lifecycle
\* async_added_to_hass: listen once for EVENT_HOMEASSISTANT_START
AddedToHass ==
    /\ pc = "constructed"
    /\ pc' = "added"
    /\ publishes' = 0
    /\ last_op' = "added"
    /\ last_state' = NoRender
    /\ outcomes' = NoOutcomes
    /\ UNCHANGED <<cfg, _entities, invalid_templates, extracted, warnings,
                   subscriptions,
                   _state, _attributes, _icon, _entity_picture, _available,
                   timers, valueOut>>

\* A wrong startup: the entities are tracked twice.
subscription_twice(entity_ids) ==
    IF entity_ids # MATCH_ALL THEN <<entity_ids, entity_ids>> ELSE <<>>

\* A wrong startup: MATCH_ALL is tracked as every entity.
subscription_all(entity_ids) ==
    IF entity_ids # MATCH_ALL THEN <<entity_ids>> ELSE <<Keys>>

\* if self._entities != MATCH_ALL: async_track_state_change(...)
subscription(entity_ids) ==
    IF entity_ids # MATCH_ALL THEN <<entity_ids>> ELSE <<>>

\* template_bsensor_startup, on EVENT_HOMEASSISTANT_START
Startup ==
    /\ pc = "added"
    /\ pc' = "started"
    /\ subscriptions' = subscriptions \o subscription(_entities)
    /\ \E o \in Outcomes(valueOut) : async_check_state(o)
    /\ last_op' = "startup"
    /\ UNCHANGED <<cfg, _entities, invalid_templates, extracted, warnings,
                   valueOut>>

\* async_track_state_change: the listener is called for the tracked entities
Notified(k) == \E i \in 1..Len(subscriptions) : k \in subscriptions[i]

\* Entity k changes state; template_bsensor_state_listener runs if k is tracked.
StateChange(k) ==
    /\ pc \in {"added", "started"}
    /\ \E v \in ValueOutcomes :
          /\ valueOut' = v
          /\ IF Notified(k)
             THEN \E o \in Outcomes(v) : async_check_state(o)
             ELSE /\ publishes' = 0
                  /\ last_state' = NoRender
                  /\ outcomes' = NoOutcomes
                  /\ UNCHANGED <<_state, _attributes, _icon, _entity_picture,
                                 _available, timers>>
    /\ last_op' = "state_change"
    /\ UNCHANGED <<pc, cfg, _entities, invalid_templates, extracted, warnings,
                   subscriptions>>

\* async_update: force update of the state from the template
Update ==
    /\ pc \in {"added", "started"}
    /\ \E o \in Outcomes(valueOut) : async_check_state(o)
    /\ last_op' = "update"
    /\ UNCHANGED <<pc, cfg, _entities, invalid_templates, extracted, warnings,
                   subscriptions, valueOut>>

\* The period of tracker t is over: the guard is evaluated, and set_state runs
\* if it holds; the tracker is gone either way.
TimerFire(t) ==
    /\ t.elapsed = t.period
    /\ timers' = timers \ {t}
    /\ \E o \in Outcomes(valueOut) :
          LET r == _async_render(o)
          IN  /\ Rendered(r)
              /\ outcomes' = o
              /\ IF async_check_same_func(r.state, t.target)
                 THEN /\ _state' = set_state(t.target)._state
                      /\ publishes' = set_state(t.target).publishes
                 ELSE /\ publishes' = 0
                      /\ UNCHANGED _state
    /\ last_op' = "timer"
    /\ UNCHANGED <<pc, cfg, _entities, invalid_templates, extracted, warnings,
                   subscriptions, valueOut>>

\* One unit of time passes; a tracker whose period is over fires first.
Tick ==
    /\ timers # {}
    /\ \A t \in timers : t.elapsed < t.period
    /\ timers' = {[t EXCEPT !.elapsed = @ + 1] : t \in timers}
    /\ publishes' = 0
    /\ last_op' = "tick"
    /\ last_state' = NoRender
    /\ outcomes' = NoOutcomes
    /\ UNCHANGED <<pc, cfg, _entities, invalid_templates, extracted, warnings,
                   subscriptions, _state, _attributes, _icon, _entity_picture,
                   _available, valueOut>>

\* ------------------------------------------------------- configurations
Delays == {NoDelay} \cup (0..MaxDelay)

\* Sensors with a value template only: the commit protocol.
DebounceConfigs ==
    [value_template : {Template(MATCH_ALL), Template({"k1"})},
     icon_template : {NoTemplate},
     entity_picture_template : {NoTemplate},
     availability_template : {NoTemplate},
     attribute_templates : {<<>>},
     entity_id : {NoEntityIds, {"k1"}},
     delay_on : Delays,
     delay_off : Delays]

RefSets == {MATCH_ALL, {"k1"}, {"k2"}}
OptionalTemplates == {NoTemplate} \cup {Template(r) : r \in RefSets}
AttributeKeys == {<<"a">>, <<"b", "_template">>}
AttributeTemplates ==
    {<<>>}
    \cup {<< <<n, Template(r)>> >> : n \in AttributeKeys, r \in RefSets}
    \cup {<< <<n, Template(r)>>, <<m, Template(q)>> >> :
            n \in AttributeKeys, m \in AttributeKeys, r \in RefSets, q \in RefSets}

\* Sensors with every combination of templates: dependency resolution.
SetupConfigs ==
    {c \in [value_template : {Template(r) : r \in RefSets},
            icon_template : OptionalTemplates,
            entity_picture_template : OptionalTemplates,
            availability_template : OptionalTemplates,
            attribute_templates : AttributeTemplates,
            entity_id : {NoEntityIds, {"k1"}},
            delay_on : {NoDelay},
            delay_off : {NoDelay}] :
        \A i, j \in 1..Len(c.attribute_templates) :
            c.attribute_templates[i][1] = c.attribute_templates[j][1] => i = j}

\* Sensors with the optional templates or with attribute templates: the
\* render pass.
RenderConfigs ==
    [value_template : {Template({"k1"})},
     icon_template : {Template({"k1"})},
     entity_picture_template : {NoTemplate, Template({"k1"})},
     availability_template : {Template({"k1"})},
     attribute_templates : {<<>>},
     entity_id : {NoEntityIds},
     delay_on : {NoDelay},
     delay_off : {NoDelay}]
    \cup
    [value_template : {Template({"k1"})},
     icon_template : {NoTemplate},
     entity_picture_template : {NoTemplate},
     availability_template : {NoTemplate},
     attribute_templates :
        {<< <<n, Template({"k1"})>>, <<m, Template({"k1"})>> >> :
            n \in {<<"a">>}, m \in {<<"b", "_template">>}},
     entity_id : {NoEntityIds},
     delay_on : {1},
     delay_off : {NoDelay}]

InitWith(configs) ==
    /\ pc = "config"
    /\ cfg \in configs
    /\ _entities = {}
    /\ invalid_templates = <<>>
    /\ extracted = <<>>
    /\ warnings = <<>>
    /\ subscriptions = <<>>
    /\ _state = None
    /\ _attributes = EmptyDict
    /\ _icon = None
    /\ _entity_picture = None
    /\ _available = True
    /\ timers = {}
    /\ valueOut \in ValueOutcomes
    /\ publishes = 0
    /\ last_op = "config"
    /\ last_state = NoRender
    /\ outcomes = NoOutcomes

Init == InitWith(DebounceConfigs)

Next ==
    \/ Setup
    \/ AddedToHass
    \/ Startup
    \/ \E k \in Keys : StateChange(k)
    \/ Update
    \/ \E t \in timers : TimerFire(t)
    \/ Tick

Spec == Init /\ [][Next]_vars

\* The render pass, over sensors with optional and attribute templates.
InitRender == InitWith(RenderConfigs)
SpecRender == InitRender /\ [][Next]_vars

\* Dependency resolution alone, over every combination of templates.
InitSetup == InitWith(SetupConfigs) /\ valueOut = "True"
NextSetup == Setup
SpecSetup == InitSetup /\ [][NextSetup]_vars

\* =============================================================== claims
Booleans == {True, False}

\* async_check_state ran in this step.
CycleStep ==
    /\ last_op' \in {"startup", "state_change", "update"}
    /\ last_state' # NoRender

\* The configured delay for a commit of target.
DelayFor(target) == IF target = True THEN cfg.delay_on ELSE cfg.delay_off

\* What the value template yields when it renders to out.
Yields(out) ==
    IF out \in {UNDEFINED, TEMPLATE_ERROR} THEN None
    ELSE IF out \in {"True", "true"} THEN True ELSE False

\* C1: a cycle whose value expression yields the boolean that is already
\* committed (as in the second of two cycles in a row that yield the same
\* boolean) publishes nothing, starts no timer and leaves the committed value.
C1_IdempotentCommit ==
    [][ (CycleStep /\ _state \in Booleans /\ Yields(valueOut') = _state)
            => (publishes' = 0 /\ timers' = timers /\ _state' = _state) ]_vars

C1_Witness ==
    /\ pc = "started"
    /\ last_op = "update"
    /\ last_state = True
    /\ _state = True
    /\ publishes = 0

\* C2: a pass in which the value expression fails (undefined reference or
\* any other error) leaves the committed value, publishes nothing and starts
\* no timer; the committed value changes only in a step whose value
\* expression evaluated, so a sensor that fails on every cycle stays Unknown.
C2_FailedValueIsUnknown ==
    /\ [][ (last_state' # NoRender /\ IsError(valueOut'))
              => (last_state' = None /\ _state' = _state /\ publishes' = 0
                  /\ timers' \subseteq timers) ]_vars
    /\ [][ _state' # _state => ~IsError(valueOut') ]_vars

C2_Witness ==
    /\ pc = "started"
    /\ last_op = "state_change"
    /\ valueOut = TEMPLATE_ERROR
    /\ last_state = None
    /\ _state = None
    /\ publishes = 0

C4_DelayedCommit ==
    /\ [](\A t \in timers :
             /\ t.period = DelayFor(t.target)
             /\ t.period > 0
             /\ t.elapsed <= t.period
             /\ _state # t.target)
    /\ [][ \A t \in timers :
              (t.elapsed < t.period /\ Yields(valueOut') = t.target)
                  => (_state' = _state /\ publishes' = 0) ]_vars
    /\ [][ \A t \in timers :
              (last_op' = "timer" /\ t \notin timers'
               /\ Yields(valueOut') = t.target)
                  => (/\ t.elapsed = DelayFor(t.target)
                      /\ _state' = t.target
                      /\ publishes' = 1) ]_vars

C4_Witness ==
    /\ last_op = "timer"
    /\ publishes = 1
    /\ _state = True
    /\ cfg.delay_on = MaxDelay
    /\ cfg.delay_off = 1

\* C5: when the period of a timer is over and the value expression does not
\* yield its target, nothing is committed or published, the timer is gone and
\* no timer is started; a value is committed only in a step that rendered it.
C5_GuardFailure ==
    /\ [][ \A t \in timers :
              (last_op' = "timer" /\ t \notin timers'
               /\ Yields(valueOut') # t.target)
                  => (/\ _state' = _state
                      /\ publishes' = 0
                      /\ timers' = timers \ {t}) ]_vars
    /\ [][ _state' # _state => last_state' = _state' ]_vars

C5_Witness ==
    /\ last_op = "timer"
    /\ publishes = 0
    /\ last_state = False
    /\ _state = False
    /\ timers = {}
    /\ cfg.delay_on = MaxDelay

\* C6: a cycle that yields false while a timer for true is pending cancels
\* that timer, and then commits false at once or starts the only timer, a
\* timer for false.
C6_OppositeCancels ==
    [][ (CycleStep /\ Yields(valueOut') = False
         /\ \E t \in timers : t.target = True)
            => /\ \A t \in timers' : t.target # True
               /\ \/ (_state' = False /\ timers' = {})
                  \/ \E t \in timers' :
                        timers' = {t} /\ t.target = False /\ t.elapsed = 0 ]_vars

\* C7: a cycle that yields a boolean different from the committed value, the
\* delay of that direction being unset or zero, commits and publishes it in
\* the same cycle and leaves no timer outstanding.
C7_ImmediateCommit ==
    [][ (CycleStep /\ Yields(valueOut') \in Booleans
         /\ Yields(valueOut') # _state
         /\ DelayFor(Yields(valueOut')) \in {NoDelay, 0})
            => (/\ _state' = Yields(valueOut')
                /\ publishes' = 1
                /\ timers' = {}) ]_vars

\* C8: the committed value changes exactly in the steps that publish, the
\* value published is the one rendered in that step, and the target of a
\* pending timer is never the visible value.
C8_PublishIffCommit ==
    /\ [][ /\ (publishes' = 1 => (_state' # _state /\ last_state' = _state'))
           /\ (_state' # _state => publishes' = 1) ]_vars
    /\ [](\A t \in timers : _state # t.target)

C8_Witness ==
    /\ _state = False
    /\ publishes = 0
    /\ valueOut = "true"
    /\ \E t \in timers : t.target = True /\ t.elapsed = 1 /\ t.period = MaxDelay

\* The templates of the configuration that exist.
ConfiguredTemplates ==
    {template_chain(cfg)[i][2] : i \in 1..Len(template_chain(cfg))}
        \ {NoTemplate}

\* C9: without manual entity ids, the resolved dependency is MATCH_ALL if and
\* only if some configured template extracts MATCH_ALL, wherever it stands in
\* the order of inspection; otherwise it is the union of the extracted sets.
C9_ResolvedDependency ==
    (pc = "constructed" /\ cfg.entity_id = NoEntityIds)
        => /\ (_entities = MATCH_ALL)
                <=> (\E tpl \in ConfiguredTemplates : tpl.refs = MATCH_ALL)
           /\ (\A tpl \in ConfiguredTemplates : tpl.refs # MATCH_ALL)
                => _entities = UNION {tpl.refs : tpl \in ConfiguredTemplates}

C9_Witness ==
    /\ pc = "constructed"
    /\ cfg.entity_id = NoEntityIds
    /\ cfg.value_template.refs = MATCH_ALL
    /\ cfg.icon_template = Template({"k1"})
    /\ Len(cfg.attribute_templates) = 2
    /\ cfg.attribute_templates[2][2].refs = {"k2"}
    /\ _entities = MATCH_ALL

\* C10: a sensor whose dependency is MATCH_ALL has no subscription, a state
\* change of any entity runs no cycle for it, and after startup its
\* committed value changes only in a forced update or when a timer fires.
C10_UnboundedNotReactive ==
    /\ [](_entities = MATCH_ALL => subscriptions = <<>>)
    /\ [][ (_entities = MATCH_ALL /\ last_op' = "state_change")
              => (/\ last_state' = NoRender
                  /\ publishes' = 0
                  /\ UNCHANGED <<_state, _attributes, _icon, _entity_picture,
                                 _available, timers>>) ]_vars
    /\ [][ (_entities = MATCH_ALL /\ pc = "started" /\ _state' # _state)
              => last_op' \in {"update", "timer"} ]_vars

C10_Witness ==
    /\ _entities = MATCH_ALL
    /\ pc = "started"
    /\ last_op = "state_change"
    /\ valueOut = "True"
    /\ _state = False
    /\ timers = {}

\* C11: with manual entity ids, extract_entities is called on no template,
\* the dependency is exactly the manual set and never MATCH_ALL, no template
\* is recorded as invalid and no warning is logged.
C11_ManualEntityIds ==
    (pc = "constructed" /\ cfg.entity_id # NoEntityIds)
        => /\ extracted = <<>>
           /\ _entities = cfg.entity_id
           /\ _entities # MATCH_ALL
           /\ invalid_templates = <<>>
           /\ warnings = <<>>

C11_Witness ==
    /\ pc = "constructed"
    /\ cfg.entity_id = {"k1"}
    /\ cfg.value_template.refs = MATCH_ALL
    /\ cfg.icon_template = Template({"k2"})
    /\ _entities = {"k1"}
    /\ warnings = <<>>

\* C12: the startup handler runs only from the registered listener and once;
\* it installs at most one subscription, for exactly the resolved or manual
\* entity ids, and none for MATCH_ALL; it runs one cycle in both modes; the
\* subscriptions never change after startup.
C12_StartupOnce ==
    /\ [](Len(subscriptions) <= 1 /\ (pc # "started" => subscriptions = <<>>))
    /\ [][ last_op' = "startup"
              => /\ pc = "added" /\ pc' = "started"
                 /\ last_state' # NoRender
                 /\ subscriptions' =
                       IF _entities = MATCH_ALL THEN <<>> ELSE <<_entities>>
                 /\ cfg.entity_id # NoEntityIds
                       => subscriptions' = <<cfg.entity_id>> ]_vars
    /\ [][ pc = "started"
              => (pc' = "started" /\ last_op' # "startup"
                  /\ subscriptions' = subscriptions) ]_vars

C12_Witness ==
    /\ pc = "started"
    /\ last_op = "startup"
    /\ last_state = True
    /\ cfg.entity_id = {"k1"}
    /\ cfg.value_template.refs = MATCH_ALL
    /\ subscriptions = << {"k1"} >>

\* A render pass ran in this step.
RenderStep == outcomes' # NoOutcomes

\* The attributes whose templates rendered in a pass with outcomes o.
OkAttrs(o) ==
    {k \in DOMAIN o.attrs : o.attrs[k] \notin {UNDEFINED, TEMPLATE_ERROR}}

\* The attribute map is exactly what rendered in this step.
AttributesReplaced ==
    /\ DOMAIN _attributes' = OkAttrs(outcomes')
    /\ \A k \in OkAttrs(outcomes') : _attributes'[k] = outcomes'.attrs[k]

\* C13: in a pass whose value template renders, the attribute map afterwards
\* holds exactly the attributes that rendered in this pass, each with its new
\* value, and the state returned is the one the value template yields.
C13_AttributesIsolated ==
    [][ (RenderStep /\ outcomes'.value \notin {UNDEFINED, TEMPLATE_ERROR})
            => (AttributesReplaced /\ last_state' = Yields(outcomes'.value))
      ]_vars

C13_Witness ==
    /\ <<"a">> \in DOMAIN outcomes.attrs
    /\ outcomes.attrs[<<"a">>] = TEMPLATE_ERROR
    /\ outcomes.attrs[<<"b", "_template">>] = "y"
    /\ _attributes = [k \in {<<"b", "_template">>} |-> "y"]
    /\ outcomes.value = "true"
    /\ last_state = True

ChainNames == {"_icon", "_entity_picture", "_available"}
Before(p) ==
    CASE p = "_icon" -> {}
      [] p = "_entity_picture" -> {"_icon"}
      [] p = "_available" -> {"_icon", "_entity_picture"}
Configured(p) ==
    CASE p = "_icon" -> cfg.icon_template.exists
      [] p = "_entity_picture" -> cfg.entity_picture_template.exists
      [] p = "_available" -> cfg.availability_template.exists
FieldOf(p) ==
    CASE p = "_icon" -> _icon
      [] p = "_entity_picture" -> _entity_picture
      [] p = "_available" -> _available
FailedAt(o, p) == Configured(p) /\ o[p] \in {UNDEFINED, TEMPLATE_ERROR}
Converted(o, p) ==
    IF p = "_available"
    THEN (IF o[p] \in {"True", "true"} THEN True ELSE False)
    ELSE o[p]

\* icon, picture and availability are rendered in order up to the first
\* failure; the failing field and the later ones keep their values.
ChainApplied ==
    \A p \in ChainNames :
        FieldOf(p)' =
            IF Configured(p)
               /\ ~\E q \in Before(p) \cup {p} : FailedAt(outcomes', q)
            THEN Converted(outcomes', p)
            ELSE FieldOf(p)

\* C14: in every pass the chain icon, picture, availability is rendered in
\* order and stops at the first failure, the fields before it holding the
\* values of this pass and the others their earlier values, and the state
\* returned is the one the value template yields.
C14_ChainShortCircuit ==
    [][ RenderStep
            => (ChainApplied /\ last_state' = Yields(outcomes'.value)) ]_vars

\* The chain in the passes that reach it (the value template did not fail
\* with an undefined reference).
ChainWhenReached ==
    [][ (RenderStep /\ outcomes'.value # UNDEFINED)
            => (ChainApplied /\ last_state' = Yields(outcomes'.value)) ]_vars

\* The templates of the configuration that extract MATCH_ALL, in the order
\* of inspection, each with the name it is configured under: value, icon,
\* entity_picture, availability, or the name of the attribute.
RECURSIVE UnboundedNames(_, _)
UnboundedNames(chain, i) ==
    IF i > Len(chain) THEN <<>>
    ELSE (IF chain[i][2].exists /\ chain[i][2].refs = MATCH_ALL
          THEN << IF i <= 4 THEN <<chain[i][1][1]>> ELSE chain[i][1] >>
          ELSE <<>>)
         \o UnboundedNames(chain, i + 1)

\* C15: the warning is logged once, at construction, if and only if there are
\* no manual entity ids and some template extracts MATCH_ALL, and it names
\* exactly those templates; it is never logged afterwards.
C15_Diagnostic ==
    /\ pc = "config" => warnings = <<>>
    /\ pc # "config" =>
          IF cfg.entity_id = NoEntityIds
             /\ UnboundedNames(template_chain(cfg), 1) # <<>>
          THEN warnings = << UnboundedNames(template_chain(cfg), 1) >>
          ELSE warnings = <<>>

\* The warning with the names as the code writes them.
DiagnosticAsLogged ==
    /\ pc = "config" => warnings = <<>>
    /\ pc # "config" =>
          IF cfg.entity_id = NoEntityIds
             /\ UnboundedNames(template_chain(cfg), 1) # <<>>
          THEN /\ Len(warnings) = 1
               /\ Len(warnings[1]) = Len(UnboundedNames(template_chain(cfg), 1))
               /\ \A i \in 1..Len(warnings[1]) :
                     warnings[1][i] =
                        SelectSeq(UnboundedNames(template_chain(cfg), 1)[i],
                                  LAMBDA tok : tok # "_template")
          ELSE warnings = <<>>

\* C16: a pass whose value template fails with an undefined reference
\* returns None and still replaces the attribute map and renders the chain.
C16_UndefinedDoesNotAbort ==
    [][ (RenderStep /\ outcomes'.value = UNDEFINED)
            => (last_state' = None /\ AttributesReplaced /\ ChainApplied)
      ]_vars

\* C17: a pass whose value template fails with another template error
\* returns None and still replaces the attribute map and renders the chain.
C17_ErrorDoesNotAbort ==
    [][ (RenderStep /\ outcomes'.value = TEMPLATE_ERROR)
            => (last_state' = None /\ AttributesReplaced /\ ChainApplied)
      ]_vars

C17_Witness ==
    /\ outcomes.value = TEMPLATE_ERROR
    /\ last_state = None
    /\ outcomes._icon = "mdi:b"
    /\ _icon = "mdi:b"
    /\ outcomes._entity_picture = "/b.png"
    /\ _entity_picture = "/b.png"
    /\ outcomes._available = "off"
    /\ _available = False

C19_GuardFailureFrame ==
    [][ \A t \in timers :
           (last_op' = "timer" /\ t \notin timers'
            /\ Yields(valueOut') # t.target)
               => UNCHANGED <<_state, _attributes, _icon, _entity_picture,
                              _available>> ]_vars

\* C20: the committed value is None only before the first commit: once it is
\* True or False it stays True or False, whatever the templates do later.
C20_NeverUnknownAgain ==
    /\ [](_state \in {None, True, False})
    /\ [][ (_state \in Booleans) => (_state' \in Booleans) ]_vars
    /\ [][ (_state' # _state) => (_state' \in Booleans) ]_vars

C20_Witness ==
    /\ pc = "started"
    /\ _state = True
    /\ last_op = "state_change"
    /\ valueOut = UNDEFINED
    /\ last_state = None
    /\ publishes = 0

====
